---- MODULE Spec2Model ----
(***************************************************************************)
(* Model of networksecurity/components/data_validation.py: the            *)
(* DataValidation component (schema load, structural checks, per-column   *)
(* two-sample Kolmogorov-Smirnov drift test, report and valid-file        *)
(* writes) and of the exception wrapper in exception/exception.py.        *)
(*                                                                         *)
(* A table (pandas DataFrame) is a sequence of columns, each a record     *)
(* [name, values]; column names of a table are pairwise distinct, as      *)
(* pandas.read_csv de-duplicates header names.  A p-value is an exact     *)
(* rational [num, den]; den = 0 stands for NaN.                            *)
(***************************************************************************)
EXTENDS Integers, Sequences, FiniteSets, TLC

\* ------------------------------------------------------------------ bounds
MaxCols == 2
MaxRows == 4

\* threshold=0.05 of detect_dataset_drift, as the rational 1/20
ThresholdNum == 1
ThresholdDen == 20

Names == {"a", "b", "c"}

None == "None"

\* ------------------------------------------------------------- helpers
Range(s) == {s[i] : i \in DOMAIN s}

Abs(x) == IF x < 0 THEN -x ELSE x

RECURSIVE GCD(_, _)
GCD(x, y) == IF y = 0 THEN x ELSE GCD(y, x % y)

SetMax(S) == CHOOSE x \in S : \A y \in S : y <= x

IsInjective(s) == \A i, j \in DOMAIN s : s[i] = s[j] => i = j

InjectiveSeqs(S, lo, hi) ==
    UNION {{s \in [1..n -> S] : IsInjective(s)} : n \in lo..hi}

\* ------------------------------------------------------------- inputs
\* The column samples with r rows: the constant sample 0, ..., 0 and the
\* sample 1, ..., r of pairwise different values above it.
Samples(r) == {[i \in 1..r |-> 0], [i \in 1..r |-> i]}

\* The tables pandas.read_csv can return: at least one column, distinct
\* column names, every column with the same number of rows.  Two row
\* counts: MaxRows (with 4 rows on both sides the exact KS test can reach
\* a p-value below the threshold) and the header-only file.
TablesWithRows(r) ==
    UNION {{[i \in 1..Len(ns) |-> [name |-> ns[i], values |-> vs[i]]] :
               vs \in [1..Len(ns) -> Samples(r)]}
           : ns \in InjectiveSeqs(Names, 1, MaxCols)}

DataTables == TablesWithRows(MaxRows)

HeaderOnlyTables == TablesWithRows(0)

Tables == DataTables \cup HeaderOnlyTables

\* The schema documents at SCHEMA_FILE_PATH: the ordered keys of the
\* "columns" mapping (YAML mapping keys are unique); possibly empty.
SchemaDocs == InjectiveSeqs(Names, 0, MaxCols)

\* --------------------------------------------------- DataFrame accessors
\* dataframe.columns
Columns(df) == [i \in DOMAIN df |-> df[i].name]

\* dataframe.shape[1]
Shape1(df) == Len(df)

\* dataframe[column] for a column name present in the table
GetColumn(df, column) ==
    (df[CHOOSE i \in DOMAIN df : df[i].name = column]).values

HasColumn(df, column) == column \in Range(Columns(df))

\* ------------------------------------------------- structural validation
\* validate_number_of_columns with the comparison loosened to "at least"
validate_number_of_columns_AtLeast(schema, dataframe) ==
    Shape1(dataframe) >= Len(schema)

\* validate_number_of_columns with the comparison loosened to "at most"
validate_number_of_columns_AtMost(schema, dataframe) ==
    Shape1(dataframe) <= Len(schema)

\* validate_number_of_columns: len(schema["columns"]) == dataframe.shape[1]
validate_number_of_columns(schema, dataframe) ==
    Shape1(dataframe) = Len(schema)

\* missing_columns comparing by position instead of by membership
missing_columns_Positional(schema, dataframe) ==
    LET idx == {i \in DOMAIN schema :
                   i > Len(dataframe) \/ dataframe[i].name # schema[i]}
        F[i \in 0..Len(schema)] ==
            IF i = 0 THEN << >>
            ELSE IF i \in idx THEN Append(F[i - 1], schema[i]) ELSE F[i - 1]
    IN F[Len(schema)]

\* [col for col in required_columns if col not in dataframe_columns]
missing_columns(schema, dataframe) ==
    LET Missing(col) == ~HasColumn(dataframe, col)
    IN SelectSeq(schema, Missing)

\* validate_required_columns satisfied by any one required column
validate_required_columns_Any(schema, dataframe) ==
    \E i \in DOMAIN schema : HasColumn(dataframe, schema[i])

\* validate_required_columns: False iff missing_columns is non-empty
validate_required_columns(schema, dataframe) ==
    missing_columns(schema, dataframe) = << >>

\* ------------------------------------------------------ drift detection
\* scipy.stats.ks_2samp, two-sided, exact method (sample sizes far below
\* 10000).  h is the KS statistic scaled by lcm(m, n); the p-value is the
\* share of lattice paths from (0,0) to (m,n) that reach distance h.
CountLE(d, x) == Cardinality({i \in DOMAIN d : d[i] <= x})

KsScaledStatistic(d1, d2) ==
    LET m == Len(d1)
        n == Len(d2)
        g == GCD(m, n)
    IN SetMax({Abs(CountLE(d1, x) * n - CountLE(d2, x) * m) \div g :
                  x \in Range(d1) \cup Range(d2)})

\* Row i of the path-count table: entry j + 1 is the number of lattice
\* paths from (0,0) to (i,j) on which |i'*n - j'*m| < limit throughout.
RECURSIVE PathsRow(_, _, _, _, _, _)
PathsRow(prev, i, m, n, limit, acc) ==
    LET j == Len(acc)
        up == IF i > 0 THEN prev[j + 1] ELSE 0
        left == IF j > 0 THEN acc[j] ELSE 0
        here == IF Abs(i * n - j * m) >= limit THEN 0
                ELSE IF i = 0 /\ j = 0 THEN 1
                ELSE up + left
    IN IF j > n THEN acc
       ELSE PathsRow(prev, i, m, n, limit, Append(acc, here))

RECURSIVE PathsRows(_, _, _, _)
PathsRows(i, m, n, limit) ==
    IF i = 0 THEN PathsRow(<< >>, 0, m, n, limit, << >>)
    ELSE PathsRow(PathsRows(i - 1, m, n, limit), i, m, n, limit, << >>)

PathsInside(m, n, limit) == PathsRows(m, m, n, limit)[n + 1]

\* all lattice paths from (0,0) to (m,n): the binomial (m+n choose n)
PathsTotal(m, n) == PathsInside(m, n, m * n + 1)

NaN == [num |-> 0, den |-> 0]

KsExactPValue(d1, d2) ==
    LET m == Len(d1)
        n == Len(d2)
        h == KsScaledStatistic(d1, d2)
        total == PathsTotal(m, n)
    IN IF h = 0 THEN [num |-> 1, den |-> 1]
       ELSE [num |-> total - PathsInside(m, n, h * GCD(m, n)), den |-> total]

\* The outcomes of float(ks_2samp(d1, d2).pvalue).  On an empty sample the
\* installed scipy either raises ValueError or returns NaN with a warning.
ks_2samp(d1, d2) ==
    IF Len(d1) = 0 \/ Len(d2) = 0
    THEN {[raised |-> TRUE, pvalue |-> NaN], [raised |-> FALSE, pvalue |-> NaN]}
    ELSE {[raised |-> FALSE, pvalue |-> KsExactPValue(d1, d2)]}

\* drift_found = p_value < threshold  (any comparison with NaN is False)
DriftFound(p_value) ==
    p_value.den # 0 /\ p_value.num * ThresholdDen < ThresholdNum * p_value.den

\* the aggregate taken from the last column only
NextStatus_LastColumn(status, drift_found) == ~drift_found

\* if drift_found: status = False
NextStatus(status, drift_found) == IF drift_found THEN FALSE ELSE status

\* the report entry inserted in front of the earlier ones
ReportPut_Front(report, column, p_value) ==
    <<[column |-> column, p_value |-> p_value,
       drift_status |-> DriftFound(p_value)]>> \o report

\* report[column] = {"p_value": p_value, "drift_status": drift_found}
ReportPut(report, column, p_value) ==
    Append(report, [column |-> column, p_value |-> p_value,
                    drift_status |-> DriftFound(p_value)])

\* ------------------------------------------------------------ exceptions
\* The messages of the four structural failures (lines 102, 104, 108, 110)
\* and the lines that raise them.
CheckOrder == <<"count_train", "count_test", "required_train", "required_test">>

\* both tables of a kind reported with the training-data message
StructuralMessage_TrainOnly(check) ==
    IF check \in {"count_train", "count_test"}
    THEN "Number of columns do not match schema for training data."
    ELSE "Required columns missing in training data."

StructuralMessage(check) ==
    CASE check = "count_train" ->
            "Number of columns do not match schema for training data."
      [] check = "count_test" ->
            "Number of columns do not match schema for testing data."
      [] check = "required_train" ->
            "Required columns missing in training data."
      [] check = "required_test" ->
            "Required columns missing in testing data."

StructuralLine(check) ==
    CASE check = "count_train" -> 102
      [] check = "count_test" -> 104
      [] check = "required_train" -> 108
      [] check = "required_test" -> 110

\* NetworkSecurityException(e, sys) as seen by the caller: the message of
\* the original exception and the line of the outermost try block where
\* it surfaced (exc_tb.tb_lineno).
NetworkSecurityException(message, lineno) ==
    [error_message |-> message, lineno |-> lineno]

\* ---------------------------------------------------------- schema load
\* read_yaml_file(SCHEMA_FILE_PATH), a plain YAML load: an unreadable or
\* malformed document raises; any document that parses is returned as it
\* is, a "columns" mapping with no entries included.
read_yaml_file(doc, readable) ==
    IF ~readable
    THEN [raised |-> TRUE, content |-> << >>]
    ELSE [raised |-> FALSE, content |-> doc]

\* DataValidation.__init__: self.schema_config = read_yaml_file(...), any
\* exception re-raised as NetworkSecurityException; the loaded document is
\* not inspected
DataValidationInit(doc, readable) ==
    LET r == read_yaml_file(doc, readable)
    IN IF r.raised THEN [raised |-> TRUE, schema_config |-> << >>]
       ELSE [raised |-> FALSE, schema_config |-> r.content]

\* --------------------------------------------------------------- state
VARIABLES
    pc,               \* position of the run
    schema_doc,       \* the document at SCHEMA_FILE_PATH
    check_result,     \* value returned by a direct call of a check
    schema_config,    \* keys of self.schema_config["columns"], in order
    train_df,         \* train_df of initiate_data_validation
    test_df,          \* test_df of initiate_data_validation
    column_index,     \* number of columns the drift loop has processed
    status,           \* status of detect_dataset_drift
    report,           \* report of detect_dataset_drift
    files,            \* state of the three output files of this run
    drift_report_content, \* content of the drift report file
    artifact,         \* the DataValidationArtifacts returned
    error,            \* the NetworkSecurityException raised
    evaluated,        \* structural checks evaluated so far, in order
    logged_missing,   \* "Missing columns: ..." log lines, in order
    ks_calls          \* number of ks_2samp calls made

vars == <<pc, schema_doc, check_result, schema_config, train_df, test_df,
          column_index, status, report, files, drift_report_content, artifact,
          error, evaluated, logged_missing, ks_calls>>

\* values of the variables nothing has been assigned to yet
NoTable == << >>
NoError == [error_message |-> "", lineno |-> 0]
NoArtifact == [returned |-> FALSE]
NoDocument == [columns |-> << >>, readable |-> FALSE]

Init ==
    /\ pc = "new"
    /\ schema_doc = NoDocument
    /\ check_result = FALSE
    /\ schema_config = << >>
    /\ train_df = NoTable
    /\ test_df = NoTable
    /\ column_index = 0
    /\ status = TRUE
    /\ report = << >>
    /\ files = [drift_report |-> "absent", valid_train |-> "absent",
                valid_test |-> "absent"]
    /\ drift_report_content = << >>
    /\ artifact = NoArtifact
    /\ error = NoError
    /\ evaluated = << >>
    /\ logged_missing = << >>
    /\ ks_calls = 0

\* the run ends with NetworkSecurityException(e, sys)
Raise(message, lineno) ==
    /\ pc' = "raised"
    /\ error' = NetworkSecurityException(message, lineno)

\* ------------------------------------------------------------- actions
\* DataValidation(...): lines 13-23
Construct ==
    /\ pc = "new"
    /\ \E doc \in SchemaDocs, readable \in BOOLEAN :
          LET r == DataValidationInit(doc, readable)
          IN IF r.raised
             THEN /\ Raise("read_yaml_file error", 21)
                  /\ schema_doc' = [columns |-> doc, readable |-> readable]
                  /\ UNCHANGED schema_config
             ELSE /\ schema_config' = r.schema_config
                  /\ schema_doc' = [columns |-> doc, readable |-> readable]
                  /\ pc' = "read_train"
                  /\ UNCHANGED error
    /\ UNCHANGED <<check_result, train_df, test_df, column_index, status,
                   report, files, drift_report_content, artifact, evaluated,
                   logged_missing, ks_calls>>

\* train_df = self.read_data(train_file_path): line 97
ReadTrain ==
    /\ pc = "read_train"
    /\ \/ \E df \in DataTables : train_df' = df /\ pc' = "read_test"
                                 /\ UNCHANGED error
       \/ \E df \in HeaderOnlyTables : train_df' = df /\ pc' = "read_test"
                                       /\ UNCHANGED error
       \/ Raise("read_csv error", 97) /\ UNCHANGED train_df
    /\ UNCHANGED <<schema_doc, check_result, schema_config, test_df,
                   column_index, status, report, files, drift_report_content,
                   artifact, evaluated, logged_missing, ks_calls>>

\* test_df = self.read_data(test_file_path): line 98
ReadTest ==
    /\ pc = "read_test"
    /\ \/ \E df \in DataTables : test_df' = df /\ pc' = "count_train"
                                 /\ UNCHANGED error
       \/ \E df \in HeaderOnlyTables : test_df' = df /\ pc' = "count_train"
                                       /\ UNCHANGED error
       \/ Raise("read_csv error", 98) /\ UNCHANGED test_df
    /\ UNCHANGED <<schema_doc, check_result, schema_config, train_df,
                   column_index, status, report, files, drift_report_content,
                   artifact, evaluated, logged_missing, ks_calls>>

\* one "if not self.validate_...(df): raise Exception(...)" statement
StructuralCheck(check, passed, next) ==
    /\ pc = check
    /\ evaluated' = Append(evaluated, check)
    /\ IF passed
       THEN pc' = next /\ UNCHANGED error
       ELSE Raise(StructuralMessage(check), StructuralLine(check))
    /\ UNCHANGED <<schema_doc, check_result, schema_config, train_df, test_df,
                   column_index, status, report, files, drift_report_content,
                   artifact, ks_calls>>

\* the logging.info(f"Missing columns: ...") of validate_required_columns
LogMissing(dataframe) ==
    LET missing == missing_columns(schema_config, dataframe)
    IN logged_missing' = IF missing # << >>
                         THEN Append(logged_missing, missing)
                         ELSE logged_missing

\* lines 101-102
CountTrain ==
    /\ StructuralCheck("count_train",
                       validate_number_of_columns(schema_config, train_df),
                       "count_test")
    /\ UNCHANGED logged_missing

\* lines 103-104
CountTest ==
    /\ StructuralCheck("count_test",
                       validate_number_of_columns(schema_config, test_df),
                       "required_train")
    /\ UNCHANGED logged_missing

\* lines 107-108
RequiredTrain ==
    /\ StructuralCheck("required_train",
                       validate_required_columns(schema_config, train_df),
                       "required_test")
    /\ LogMissing(train_df)

\* lines 109-110
RequiredTest ==
    /\ StructuralCheck("required_test",
                       validate_required_columns(schema_config, test_df),
                       "drift_loop")
    /\ LogMissing(test_df)

\* one iteration of "for column in base_df.columns": lines 66-80.  An
\* exception is wrapped at line 88 and again at line 134, where it
\* surfaced on line 113.
DriftColumn ==
    /\ pc = "drift_loop"
    /\ column_index < Len(train_df)
    /\ LET column == Columns(train_df)[column_index + 1]
       IN IF ~HasColumn(test_df, column)
          THEN /\ Raise("KeyError", 113)
               /\ UNCHANGED <<column_index, status, report, ks_calls>>
          ELSE \E result \in ks_2samp(GetColumn(train_df, column),
                                      GetColumn(test_df, column)) :
                  /\ ks_calls' = ks_calls + 1
                  /\ IF result.raised
                     THEN /\ Raise("ks_2samp error", 113)
                          /\ UNCHANGED <<column_index, status, report>>
                     ELSE /\ report' = ReportPut(report, column, result.pvalue)
                          /\ status' = NextStatus(status,
                                                  DriftFound(result.pvalue))
                          /\ column_index' = column_index + 1
                          /\ UNCHANGED <<pc, error>>
    /\ UNCHANGED <<schema_doc, check_result, schema_config, train_df, test_df,
                   files, drift_report_content, artifact, evaluated,
                   logged_missing>>

\* after the loop: os.makedirs, write_yaml_file, return status: lines 82-86
WriteDriftReport ==
    /\ pc = "drift_loop"
    /\ column_index = Len(train_df)
    /\ \/ /\ files' = [files EXCEPT !.drift_report = "written"]
          /\ drift_report_content' = report
          /\ pc' = "save_valid"
          /\ UNCHANGED error
       \/ /\ Raise("makedirs error", 113)
          /\ UNCHANGED <<files, drift_report_content>>
       \/ /\ \E left \in {"absent", "partial"} :
                files' = [files EXCEPT !.drift_report = left]
          /\ Raise("write_yaml_file error", 113)
          /\ UNCHANGED drift_report_content
    /\ UNCHANGED <<schema_doc, check_result, schema_config, train_df, test_df,
                   column_index, status, report, artifact, evaluated,
                   logged_missing, ks_calls>>

\* os.makedirs (of the training file's directory only) and the two to_csv
\* calls: lines 116-118.  A to_csv that fails leaves its file absent or
\* partly written; the training file is complete before the testing file
\* is opened.
SaveValidDatasets ==
    /\ pc = "save_valid"
    /\ \/ /\ files' = [files EXCEPT !.valid_train = "written",
                                    !.valid_test = "written"]
          /\ pc' = "assemble"
          /\ UNCHANGED error
       \/ /\ Raise("makedirs error", 116)
          /\ UNCHANGED files
       \/ /\ \E left \in {"absent", "partial"} :
                files' = [files EXCEPT !.valid_train = "written",
                                       !.valid_test = left]
          /\ Raise("to_csv error", 118)
       \/ /\ \E left \in {"absent", "partial"} :
                files' = [files EXCEPT !.valid_train = left]
          /\ Raise("to_csv error", 117)
    /\ UNCHANGED <<schema_doc, check_result, schema_config, train_df, test_df,
                   column_index, status, report, drift_report_content,
                   artifact, evaluated, logged_missing, ks_calls>>

\* DataValidationArtifacts(...) and return: lines 121-131
ReturnArtifact ==
    /\ pc = "assemble"
    /\ artifact' = [returned |-> TRUE,
                    validation_status |-> status,
                    valid_train_file_path |-> "valid_train_file_path",
                    valid_test_file_path |-> "valid_test_file_path",
                    invalid_train_file_path |-> None,
                    invalid_test_file_path |-> None,
                    drift_report_file_path |-> "drift_report_file_path"]
    /\ pc' = "returned"
    /\ UNCHANGED <<schema_doc, check_result, schema_config, train_df, test_df,
                   column_index, status, report, files, drift_report_content,
                   error, evaluated, logged_missing, ks_calls>>

Next ==
    \/ Construct
    \/ ReadTrain
    \/ ReadTest
    \/ CountTrain
    \/ CountTest
    \/ RequiredTrain
    \/ RequiredTest
    \/ DriftColumn
    \/ WriteDriftReport
    \/ SaveValidDatasets
    \/ ReturnArtifact

Spec == Init /\ [][Next]_vars

\* ------------------------------------------- the two checks called directly
\* validate_number_of_columns and validate_required_columns are public
\* methods; here each is called once on a validator whose schema_config and
\* argument are arbitrary, the empty schema and the empty DataFrame included.
InitChecks ==
    /\ pc = "call"
    /\ schema_doc = NoDocument
    /\ check_result = FALSE
    /\ schema_config \in SchemaDocs
    /\ train_df \in Tables \cup {NoTable}
    /\ test_df = NoTable
    /\ column_index = 0
    /\ status = TRUE
    /\ report = << >>
    /\ files = [drift_report |-> "absent", valid_train |-> "absent",
                valid_test |-> "absent"]
    /\ drift_report_content = << >>
    /\ artifact = NoArtifact
    /\ error = NoError
    /\ evaluated = << >>
    /\ logged_missing = << >>
    /\ ks_calls = 0

\* self.validate_number_of_columns(dataframe): lines 33-44
CallValidateNumberOfColumns ==
    /\ pc = "call"
    /\ check_result' = validate_number_of_columns(schema_config, train_df)
    /\ pc' = "count_called"
    /\ UNCHANGED <<schema_doc, schema_config, train_df, test_df, column_index,
                   status, report, files, drift_report_content, artifact,
                   error, evaluated, logged_missing, ks_calls>>

\* self.validate_required_columns(dataframe): lines 46-58
CallValidateRequiredColumns ==
    /\ pc = "call"
    /\ check_result' = validate_required_columns(schema_config, train_df)
    /\ LogMissing(train_df)
    /\ pc' = "required_called"
    /\ UNCHANGED <<schema_doc, schema_config, train_df, test_df, column_index,
                   status, report, files, drift_report_content, artifact,
                   error, evaluated, ks_calls>>

NextChecks == CallValidateNumberOfColumns \/ CallValidateRequiredColumns

SpecChecks == InitChecks /\ [][NextChecks]_vars

\* =================================================================== claims
\* Statements about the tables, made from the inputs alone.
NameSet(df) == {df[i].name : i \in DOMAIN df}

SchemaNames == {schema_config[i] : i \in DOMAIN schema_config}

TablesRead == train_df # NoTable /\ test_df # NoTable

CheckHolds(check) ==
    CASE check = "count_train" -> Len(train_df) = Len(schema_config)
      [] check = "count_test" -> Len(test_df) = Len(schema_config)
      [] check = "required_train" -> SchemaNames \subseteq NameSet(train_df)
      [] check = "required_test" -> SchemaNames \subseteq NameSet(test_df)

BelowThreshold(p) == p.den # 0 /\ 20 * p.num < p.den

StructuralLines == {102, 104, 108, 110}

Degenerate(d) == Len(d) = 0 \/ \A i, j \in DOMAIN d : d[i] = d[j]

DegenerateColumn(column) ==
    \/ Degenerate(GetColumn(train_df, column))
    \/ Degenerate(GetColumn(test_df, column))

AllAbsent == \A f \in DOMAIN files : files[f] = "absent"

\* C1: a returned result has validation_status true exactly when no entry
\* of the drift report has drift_status true; one column with a p-value
\* below the threshold makes it false, whatever the other columns and the
\* visiting order.
C1_StatusIffNoDrift ==
    artifact.returned =>
        /\ artifact.validation_status =
              (\A i \in DOMAIN drift_report_content :
                  ~drift_report_content[i].drift_status)
        /\ (\E i \in DOMAIN drift_report_content :
               BelowThreshold(drift_report_content[i].p_value))
              => ~artifact.validation_status

\* a result returned where the first column drifts and the last does not
C1_Witness ==
    /\ artifact.returned
    /\ Len(drift_report_content) = 2
    /\ drift_report_content[1].drift_status
    /\ ~drift_report_content[2].drift_status
    /\ ~artifact.validation_status

\* C2: when either table fails the column-count check or the
\* required-columns check, the run raises and drift detection is never
\* started: no KS test, no drift report, no valid file, no result.
C2_StructuralFailureStopsRun ==
    (TablesRead /\ \E i \in DOMAIN CheckOrder : ~CheckHolds(CheckOrder[i]))
        => /\ pc \in {"count_train", "count_test", "required_train",
                      "required_test", "raised"}
           /\ pc = "raised" => error.lineno \in StructuralLines
           /\ ks_calls = 0
           /\ report = << >>
           /\ AllAbsent
           /\ ~artifact.returned

\* the run raised at the last check: both counts match, the training
\* table has the required columns, the testing table lacks one
C2_Witness ==
    /\ pc = "raised"
    /\ TablesRead
    /\ CheckHolds("count_train") /\ CheckHolds("count_test")
    /\ CheckHolds("required_train") /\ ~CheckHolds("required_test")
    /\ error.lineno = 110

\* C3: a run either returns a result with the report and both valid files
\* written, or raises with no result and neither valid file written or
\* partly written; only the drift report may be left behind.
C3_AllOrNothing ==
    /\ pc = "returned" =>
          /\ artifact.returned
          /\ \A f \in DOMAIN files : files[f] = "written"
    /\ pc = "raised" =>
          /\ ~artifact.returned
          /\ files.valid_train = "absent"
          /\ files.valid_test = "absent"

\* C4: once the per-column loop is complete the report is written, with
\* either verdict: the run is then about to write, or has written the
\* report, or has raised the I/O error of the write itself (os.makedirs or
\* write_yaml_file failing); a written report has one entry per
\* column of the training table, in its column order, each with that
\* column's p-value and drift_status = (p_value < threshold).
C4_ReportContent ==
    (files.drift_report = "written"
        \/ pc \in {"save_valid", "assemble", "returned"})
    => /\ files.drift_report = "written"
       /\ Len(drift_report_content) = Len(train_df)
       /\ \A i \in DOMAIN drift_report_content :
             LET e == drift_report_content[i]
             IN /\ e.column = train_df[i].name
                /\ \E r \in ks_2samp(train_df[i].values,
                                     GetColumn(test_df, train_df[i].name)) :
                      ~r.raised /\ r.pvalue = e.p_value
                /\ e.drift_status = BelowThreshold(e.p_value)

C4_LoopComplete ==
    /\ train_df # NoTable
    /\ column_index = Len(train_df)
    /\ Len(report) = Len(train_df)

C4_WriteAttempted ==
    C4_LoopComplete =>
        \/ pc = "drift_loop"
        \/ /\ pc = "raised"
           /\ error.lineno = 113
           /\ error.error_message \in {"makedirs error",
                                        "write_yaml_file error"}
        \/ /\ files.drift_report = "written"
           /\ drift_report_content = report

\* C4: the report is written once the loop is complete, whatever the
\* verdict, and holds one correct entry per training column, in order.
C4_ReportWritten == C4_ReportContent /\ C4_WriteAttempted

\* a report written with the verdict false, the tables' columns in
\* different orders, a drifting entry before one that does not drift
C4_Witness ==
    /\ files.drift_report = "written"
    /\ ~status
    /\ Len(drift_report_content) = 2
    /\ drift_report_content[1].drift_status
    /\ ~drift_report_content[2].drift_status
    /\ ~Degenerate(train_df[2].values)
    /\ test_df[1].name # train_df[1].name

\* C5: a column whose training or testing sample is empty or constant
\* makes the run raise; it gets no report entry and no result is returned.
C5_DegenerateSampleRaises ==
    /\ \A i \in DOMAIN report : ~DegenerateColumn(report[i].column)
    /\ artifact.returned =>
          \A i \in DOMAIN train_df : ~DegenerateColumn(train_df[i].name)

\* C6: a schema document with zero columns makes construction raise at
\* the schema load, so no structural check is ever evaluated against an
\* empty schema.
C6_EmptySchemaRejected ==
    /\ (pc # "new" /\ schema_doc.columns = << >>) =>
          /\ pc = "raised"
          /\ error.lineno = 21
          /\ evaluated = << >>
    /\ evaluated # << >> => schema_config # << >>

\* C7: validate_required_columns returns true exactly when every schema
\* name is a column name of the table, whatever the order and the extra
\* columns; when it returns false the missing names it records are the
\* schema's names minus the table's.
C7_RequiredColumns ==
    pc = "required_called" =>
        /\ check_result = (SchemaNames \subseteq NameSet(train_df))
        /\ check_result => logged_missing = << >>
        /\ ~check_result =>
              /\ Len(logged_missing) = 1
              /\ Range(logged_missing[1]) = SchemaNames \ NameSet(train_df)

\* true returned for a table with an undeclared column in front of the
\* declared one
C7_Witness ==
    /\ pc = "required_called"
    /\ check_result
    /\ Len(schema_config) >= 1
    /\ Len(train_df) > Len(schema_config)
    /\ train_df[1].name # schema_config[1]

\* C8: validate_number_of_columns returns true exactly when the table has
\* as many columns as the schema declares, for every schema size and table
\* width, zero included; the names play no part.
C8_NumberOfColumns ==
    pc = "count_called" =>
        check_result = (Cardinality(DOMAIN train_df)
                          = Cardinality(DOMAIN schema_config))

\* true returned for a table that shares no column name with the schema
C8_Witness ==
    /\ pc = "count_called"
    /\ check_result
    /\ Len(schema_config) >= 1
    /\ SchemaNames \cap NameSet(train_df) = {}

\* C9: when drift detection is entered, after the four checks passed, both
\* tables have exactly the schema's column names, so the lookup of a
\* training column in the testing table never fails.
DriftEntered ==
    pc \in {"drift_loop", "save_valid", "assemble", "returned"}
        \/ (pc = "raised" /\ error.lineno \in {113, 116, 117, 118})

C9_SameColumnSets ==
    /\ DriftEntered =>
          /\ NameSet(train_df) = SchemaNames
          /\ NameSet(test_df) = SchemaNames
          /\ \A i \in DOMAIN train_df :
                \E j \in DOMAIN test_df : test_df[j].name = train_df[i].name
    /\ error.error_message # "KeyError"

\* the loop has looked up every column of a two-column training table in
\* a testing table whose columns are in the other order
C9_Witness ==
    /\ pc = "drift_loop"
    /\ column_index = 2
    /\ ks_calls = 2
    /\ test_df[1].name = train_df[2].name

\* C10: the checks are evaluated in the order training count, testing
\* count, training required, testing required; every check evaluated
\* before the last one passed; a structural error comes from the last
\* check evaluated, which failed, carries that check's message and line,
\* and the four messages are pairwise different.
C10_FirstFailureReported ==
    /\ Len(evaluated) <= Len(CheckOrder)
    /\ \A i \in DOMAIN evaluated :
          /\ evaluated[i] = CheckOrder[i]
          /\ i < Len(evaluated) => CheckHolds(evaluated[i])
    /\ (pc = "raised" /\ evaluated # << >>
           /\ ~CheckHolds(evaluated[Len(evaluated)])) =>
          LET failed == evaluated[Len(evaluated)]
          IN /\ error.error_message = StructuralMessage(failed)
             /\ error.lineno = StructuralLine(failed)
             /\ \A other \in Range(CheckOrder) \ {failed} :
                   /\ StructuralMessage(other) # error.error_message
                   /\ StructuralLine(other) # error.lineno
    /\ (pc = "raised" /\ error.lineno \in StructuralLines) =>
          /\ evaluated # << >>
          /\ ~CheckHolds(evaluated[Len(evaluated)])
    /\ (pc \notin {"new", "read_train", "read_test", "raised"}
           /\ pc \notin Range(CheckOrder)) => Len(evaluated) = 4

\* the run stopped at the testing column count although the training
\* table also lacks a required column
C10_Witness ==
    /\ pc = "raised"
    /\ evaluated = <<"count_train", "count_test">>
    /\ ~CheckHolds("required_train")
    /\ error.error_message
          = "Number of columns do not match schema for testing data."

====
